---- MODULE Spec2Model ----
(***************************************************************************)
(* The zellij-notify plugin (src/src/lib.rs): one State object, driven by  *)
(* the host through load, update (TabUpdate, PaneUpdate) and pipe, and     *)
(* calling the host's rename_tab.                                          *)
(*                                                                         *)
(* Strings that the code takes apart (tab names, emojis, the pane_id and   *)
(* tab_position arguments) are sequences of characters, one element per    *)
(* Unicode code point; an emoji is named by an ASCII word ("check" is      *)
(* U+2705).  Strings the code only compares (the pipe name, the payload,   *)
(* the preset keys, the debug text) are TLA+ strings.  An Option<T> is a   *)
(* sequence of length 0 (None) or 1 (Some).                                *)
(***************************************************************************)
EXTENDS Naturals, Sequences, FiniteSets

VARIABLES
    configuration,          \* the BTreeMap handed to load (kept for reference)
    all_tabs,               \* State.all_tabs
    focused_tab_position,   \* State.focused_tab_position
    pane_manifest,          \* State.pane_manifest
    presets,                \* State.presets
    debug,                  \* State.debug
    event,                  \* which entry point ran last: "load", "TabUpdate", "PaneUpdate", "pipe"
    pipe_message,           \* Some(the PipeMessage) when the last entry point was pipe
    renamed,                \* the rename_tab calls the last entry point made, in order
    reported,               \* Some(position, label, emoji) when the latest TabUpdate was the
                            \* host's report of the rename a notify asked for: the tab's
                            \* position, its label before that notify, the emoji the notify used
    received,               \* Some(the tab list or the manifest) when the last entry point
                            \* was update: the payload of the event
    logged,                 \* whether the last entry point wrote to stderr (eprintln!)
    strip                   \* Some(name, cleaned, passes, done) while one call of
                            \* remove_trailing_emojis is followed pass by pass

vars == <<configuration, all_tabs, focused_tab_position, pane_manifest,
          presets, debug, event, pipe_message, renamed, reported, received,
          logged, strip>>

None == << >>
Some(x) == <<x>>
IsSome(o) == Len(o) = 1
Unwrap(o) == o[1]

(***************************************************************************)
(* Bounds of the model.                                                    *)
(***************************************************************************)
MaxTabs == 2
MaxLabel == 5
MaxLen == 3

(***************************************************************************)
(* Text helpers.                                                           *)
(***************************************************************************)
Min(S) == CHOOSE x \in S : \A y \in S : x <= y

\* char::is_whitespace, for the characters of the model's alphabet
Whitespace == {" ", "\t"}

\* str::trim_end
RECURSIVE TrimEnd(_)
TrimEnd(s) ==
    IF Len(s) > 0 /\ s[Len(s)] \in Whitespace
    THEN TrimEnd(SubSeq(s, 1, Len(s) - 1))
    ELSE s

\* str::ends_with
EndsWith(s, suffix) ==
    /\ Len(suffix) <= Len(s)
    /\ SubSeq(s, Len(s) - Len(suffix) + 1, Len(s)) = suffix

\* the emojis array of remove_trailing_emojis, in its order; the fourth is
\* U+26A0 followed by the variation selector U+FE0F
emojis ==
    << <<"red">>, <<"check">>, <<"cross">>, <<"warn", "vs16">>,
       <<"zap">>, <<"briefcase">>, <<"party">>, <<"question">> >>

\* faulty variant of StripPass: the trim_end at the head of the pass is missing
StripPassNoTrim(cleaned) ==
    LET hits == {i \in 1..Len(emojis) : EndsWith(cleaned, emojis[i])}
    IN  IF hits = {}
        THEN [cleaned |-> cleaned, found_emoji |-> FALSE]
        ELSE [cleaned |-> SubSeq(cleaned, 1, Len(cleaned) - Len(emojis[Min(hits)])),
              found_emoji |-> TRUE]

\* faulty variant of StripPass: the emoji is found and the slice without it is
\* not assigned back to cleaned
StripPassKeeping(cleaned) ==
    LET trimmed == TrimEnd(cleaned)
        hits    == {i \in 1..Len(emojis) : EndsWith(trimmed, emojis[i])}
    IN  [cleaned |-> trimmed, found_emoji |-> hits # {}]

\* one pass of the loop body: trim, then drop the first emoji of the array
\* that is a suffix; found_emoji tells whether one was dropped
StripPass(cleaned) ==
    LET trimmed == TrimEnd(cleaned)
        hits    == {i \in 1..Len(emojis) : EndsWith(trimmed, emojis[i])}
    IN  IF hits = {}
        THEN [cleaned |-> trimmed, found_emoji |-> FALSE]
        ELSE [cleaned |-> SubSeq(trimmed, 1, Len(trimmed) - Len(emojis[Min(hits)])),
              found_emoji |-> TRUE]

RECURSIVE StripLoop(_)
StripLoop(cleaned) ==
    LET original_len == Len(cleaned)
        pass         == StripPass(cleaned)
    IN  IF ~pass.found_emoji /\ Len(pass.cleaned) = original_len
        THEN pass.cleaned
        ELSE StripLoop(pass.cleaned)

remove_trailing_emojis(name) == StripLoop(name)

\* format!("{} {}", cleaned_name, emoji)
Annotate(cleaned_name, emoji) == cleaned_name \o <<" ">> \o emoji

Digits == <<"0", "1", "2", "3", "4", "5", "6", "7", "8", "9">>
IsDigit(c) == \E d \in 1..10 : Digits[d] = c
DigitValue(c) == (CHOOSE d \in 1..10 : Digits[d] = c) - 1

\* u32::to_string
RECURSIVE ToString(_)
ToString(n) ==
    IF n < 10 THEN <<Digits[n + 1]>>
    ELSE ToString(n \div 10) \o <<Digits[(n % 10) + 1]>>

RECURSIVE DigitsValue(_)
DigitsValue(s) ==
    IF Len(s) = 0 THEN 0
    ELSE 10 * DigitsValue(SubSeq(s, 1, Len(s) - 1)) + DigitValue(s[Len(s)])

\* str::parse::<usize>().ok(): an optional leading "+", then one or more
\* decimal digits; no sign "-", no blanks.  (The texts of the model are far
\* below usize::MAX, so the overflow error is not modelled.)
ParseUsize(s) ==
    LET body == IF Len(s) > 1 /\ s[1] = "+" THEN SubSeq(s, 2, Len(s)) ELSE s
    IN  IF Len(body) > 0 /\ \A i \in 1..Len(body) : IsDigit(body[i])
        THEN Some(DigitsValue(body))
        ELSE None

\* str::parse::<bool>().ok()
ParseBool(s) ==
    IF s = "true" THEN Some(TRUE)
    ELSE IF s = "false" THEN Some(FALSE)
    ELSE None

\* BTreeMap::get / HashMap::get
Get(map, key) == IF key \in DOMAIN map THEN Some(map[key]) ELSE None

\* faulty variant of TabIndex: the position is passed on as it is, 0-based
TabIndexZeroBased(position) == position

\* tab.position as u32 + 1
TabIndex(position) == position + 1

(***************************************************************************)
(* What the host can hand to the plugin.                                   *)
(***************************************************************************)
\* tab names the host reports: a name that carries an emoji of the array,
\* and a name that carries an emoji the array does not list (which
\* remove_trailing_emojis leaves as it is)
Names ==
    { <<"b", " ", "check">>,
      <<"b", " ", "rocket">> }

\* TabInfo, with the fields the plugin reads outside of logging
Tab(position, name, active) ==
    [position |-> position, name |-> name, active |-> active]

\* the tab lists of a TabUpdate: tab i of n sits at position i - 1, and at
\* most one tab is active (active = 0: none)
TabLists ==
    UNION { { [i \in 1..n |-> Tab(i - 1, names[i], active = i)] :
                names \in [1..n -> Names], active \in 0..n } :
            n \in 0..MaxTabs }

\* PaneInfo: only id is read
Pane(id) == [id |-> id]

PaneLists == { <<Pane(9)>>, <<Pane(9), Pane(7)>> }

\* PaneManifest { panes: BTreeMap<usize, Vec<PaneInfo>> }
PaneManifests == { [panes |-> m] : m \in [0..1 -> PaneLists] }

\* the configuration entries: the text of "debug", and the JSON text of
\* "presets", kept as whether serde_json accepts it and the map it yields
PresetConfig(emoji) == [emoji |-> emoji]

PresetsJson ==
    [parses |-> TRUE,
     value  |-> [key \in {"done", ""} |->
                    IF key = "done" THEN PresetConfig(<<"rocket">>)
                    ELSE PresetConfig(<<"red">>)]]

Entries(debug_text, presets_json) ==
    [key \in {k \in {"debug"} : IsSome(debug_text)}
             \cup {k \in {"presets"} : IsSome(presets_json)} |->
        IF key = "debug" THEN Unwrap(debug_text) ELSE Unwrap(presets_json)]

Configurations ==
    { Entries(None, None), Entries(Some("true"), Some(PresetsJson)) }

\* PipeMessage: name, payload and args are what pipe reads outside of logging
PipeNames == {"notify", "Notify"}

Payloads == {None, Some(""), Some("done"), Some("zzz")}

PaneIdTexts == { <<"7">> }

TabPositionTexts ==
    { ToString(p) : p \in 0..1 } \cup { <<"-", "1">> }

Args(pane_id, tab_position) ==
    [key \in {k \in {"pane_id"} : IsSome(pane_id)}
             \cup {k \in {"tab_position"} : IsSome(tab_position)} |->
        IF key = "pane_id" THEN Unwrap(pane_id) ELSE Unwrap(tab_position)]

PipeMessages ==
    { [name |-> n, payload |-> p, args |-> Args(i, t)] :
        n \in PipeNames, p \in Payloads,
        i \in {None} \cup {Some(x) : x \in PaneIdTexts},
        t \in {None} \cup {Some(x) : x \in TabPositionTexts} }

(***************************************************************************)
(* load                                                                    *)
(***************************************************************************)
\* serde_json::from_str(presets_json)
FromJson(json) == IF json.parses THEN Some(json.value) ELSE None

LoadDebug(config) ==
    LET text   == Get(config, "debug")
        parsed == IF IsSome(text) THEN ParseBool(Unwrap(text)) ELSE None
    IN  IF IsSome(parsed) THEN Unwrap(parsed) ELSE FALSE

\* faulty variant of LoadPresets: a text that does not parse yields a built-in
\* table instead of the empty one
LoadPresetsBuiltin(config) ==
    LET json   == Get(config, "presets")
        parsed == IF IsSome(json) THEN FromJson(Unwrap(json)) ELSE None
    IN  IF IsSome(parsed) THEN Unwrap(parsed)
        ELSE IF IsSome(json) THEN [key \in {"done"} |-> PresetConfig(<<"check">>)]
        ELSE << >>

\* State::default() has an empty map; only Ok(presets) assigns
LoadPresets(config) ==
    LET json   == Get(config, "presets")
        parsed == IF IsSome(json) THEN FromJson(Unwrap(json)) ELSE None
    IN  IF IsSome(parsed) THEN Unwrap(parsed) ELSE << >>

Load(config) ==
    /\ configuration = config
    /\ debug = LoadDebug(config)
    /\ presets = LoadPresets(config)
    /\ all_tabs = << >>
    /\ focused_tab_position = None
    /\ pane_manifest = None
    /\ event = "load"
    /\ pipe_message = None
    /\ renamed = << >>
    /\ reported = None
    /\ received = None
    /\ logged = debug

Init == (\E config \in Configurations : Load(config)) /\ strip = None

(***************************************************************************)
(* update                                                                  *)
(***************************************************************************)
\* rename_tab(tab_index, name)
RenameTab(tab_index, name) == [tab_index |-> tab_index, name |-> name]

\* tabs.iter() ... if tab.active ... break: the first active tab
FirstActive(tabs) ==
    LET hits == {i \in 1..Len(tabs) : tabs[i].active}
    IN  IF hits = {} THEN None ELSE Some(tabs[Min(hits)])

\* faulty variant of CleanupRenames: the is_new_focus test is missing
CleanupRenamesAlways(tabs) ==
    LET found == FirstActive(tabs)
    IN  IF IsSome(found)
        THEN LET tab     == Unwrap(found)
                 cleaned == remove_trailing_emojis(tab.name)
             IN  IF cleaned # tab.name
                 THEN <<RenameTab(TabIndex(tab.position), cleaned)>>
                 ELSE << >>
        ELSE << >>

\* faulty variant of CleanupRenames: the "cleaned != tab.name" test is missing
CleanupRenamesUnguarded(tabs) ==
    LET found == FirstActive(tabs)
    IN  IF IsSome(found) /\ focused_tab_position # Some(Unwrap(found).position)
        THEN LET tab     == Unwrap(found)
                 cleaned == remove_trailing_emojis(tab.name)
             IN  <<RenameTab(TabIndex(tab.position), cleaned)>>
        ELSE << >>

\* the rename_tab calls of the TabUpdate arm
CleanupRenames(tabs) ==
    LET found == FirstActive(tabs)
    IN  IF IsSome(found) /\ focused_tab_position # Some(Unwrap(found).position)
        THEN LET tab     == Unwrap(found)
                 cleaned == remove_trailing_emojis(tab.name)
             IN  IF cleaned # tab.name
                 THEN <<RenameTab(TabIndex(tab.position), cleaned)>>
                 ELSE << >>
        ELSE << >>

\* faulty variant of NextFocus: the assignment to focused_tab_position is missing
NextFocusStale(tabs) == focused_tab_position

\* faulty variant of NextFocus: the 1-based tab index is stored, not the position
NextFocusOneBased(tabs) ==
    LET found == FirstActive(tabs)
    IN  IF IsSome(found) /\ focused_tab_position # Some(Unwrap(found).position)
        THEN Some(TabIndex(Unwrap(found).position))
        ELSE focused_tab_position

\* faulty variant of NextFocus: a tab list without an active tab clears the focus
NextFocusClearing(tabs) ==
    LET found == FirstActive(tabs)
    IN  IF IsSome(found) THEN Some(Unwrap(found).position) ELSE None

\* focused_tab_position after the TabUpdate arm
NextFocus(tabs) ==
    LET found == FirstActive(tabs)
    IN  IF IsSome(found) /\ focused_tab_position # Some(Unwrap(found).position)
        THEN Some(Unwrap(found).position)
        ELSE focused_tab_position

\* faulty variant of PresetEmoji: an unknown key yields the default preset
PresetEmojiDefaulting(payload) ==
    IF payload = None \/ payload = Some("")
    THEN <<"check">>
    ELSE LET preset == Get(presets, Unwrap(payload))
         IN  IF IsSome(preset) THEN Unwrap(preset).emoji ELSE <<"check">>

\* the emoji of the preset chosen by the payload
PresetEmoji(payload) ==
    IF payload = None \/ payload = Some("")
    THEN <<"check">>
    ELSE LET preset == Get(presets, Unwrap(payload))
         IN  IF IsSome(preset) THEN Unwrap(preset).emoji ELSE <<"question">>

\* faulty variant of FindTab: a position that is not in the list yields the active tab
FindTabOrActive(position) ==
    LET hits == {i \in 1..Len(all_tabs) : all_tabs[i].position = position}
    IN  IF hits = {} THEN FirstActive(all_tabs) ELSE Some(all_tabs[Min(hits)])

\* self.all_tabs.iter().find(|t| t.position == position)
FindTab(position) ==
    LET hits == {i \in 1..Len(all_tabs) : all_tabs[i].position = position}
    IN  IF hits = {} THEN None ELSE Some(all_tabs[Min(hits)])

\* the host's side of rename_tab(tab_index, name): the tab at that 1-based
\* index carries the new name in the next tab list
ApplyRename(tabs, rename) ==
    [i \in 1..Len(tabs) |->
        IF TabIndex(tabs[i].position) = rename.tab_index
        THEN [tabs[i] EXCEPT !.name = rename.name]
        ELSE tabs[i]]

\* the Event::TabUpdate arm of update
TabUpdateArm(tabs) ==
    /\ all_tabs' = tabs
    /\ focused_tab_position' = NextFocus(tabs)
    /\ renamed' = CleanupRenames(tabs)
    /\ event' = "TabUpdate"
    /\ pipe_message' = None
    /\ received' = Some(tabs)
    /\ logged' = debug
    /\ UNCHANGED <<configuration, pane_manifest, presets, debug, strip>>

\* a TabUpdate with any tab list of the host
TabUpdate(tabs) ==
    /\ TabUpdateArm(tabs)
    /\ reported' = None

\* the TabUpdate in which the host reports the rename that the entry point
\* just before it asked for, a notify or a cleanup: the same tabs, the same
\* active tab, the new label (labels stay within MaxLabel characters)
HostReport ==
    /\ Len(renamed) = 1
    /\ Len(renamed[1].name) <= MaxLabel
    /\ TabUpdateArm(ApplyRename(all_tabs, renamed[1]))
    /\ LET position == renamed[1].tab_index - 1
       IN  reported' = IF event = "pipe"
                       THEN Some([position |-> position,
                                  label    |-> Unwrap(FindTab(position)).name,
                                  emoji    |-> PresetEmoji(Unwrap(pipe_message).payload)])
                       ELSE None

\* faulty variant of PaneUpdate: only the first manifest is stored
PaneUpdateOnce(manifest) ==
    /\ pane_manifest' = IF IsSome(pane_manifest) THEN pane_manifest ELSE Some(manifest)
    /\ renamed' = << >>
    /\ event' = "PaneUpdate"
    /\ pipe_message' = None
    /\ received' = Some(manifest)
    /\ logged' = debug
    /\ UNCHANGED <<configuration, all_tabs, focused_tab_position, presets, debug,
                   reported, strip>>

\* the Event::PaneUpdate arm of update
PaneUpdate(manifest) ==
    /\ pane_manifest' = Some(manifest)
    /\ renamed' = << >>
    /\ event' = "PaneUpdate"
    /\ pipe_message' = None
    /\ received' = Some(manifest)
    /\ logged' = debug
    /\ UNCHANGED <<configuration, all_tabs, focused_tab_position, presets, debug,
                   reported, strip>>

(***************************************************************************)
(* pipe                                                                    *)
(***************************************************************************)
\* faulty variant of FindPaneTab: the scan keeps going and the last match wins
FindPaneTabLast(pane_id) ==
    IF IsSome(pane_manifest)
    THEN LET panes == Unwrap(pane_manifest).panes
             hits  == {tab_position \in DOMAIN panes :
                          \E i \in 1..Len(panes[tab_position]) :
                              ToString(panes[tab_position][i].id) = pane_id}
         IN  IF hits = {} THEN None
             ELSE Some(CHOOSE x \in hits : \A y \in hits : y <= x)
    ELSE None

\* Method 1: the first key of manifest.panes, in key order, with a pane whose
\* id prints as pane_id
FindPaneTab(pane_id) ==
    IF IsSome(pane_manifest)
    THEN LET panes == Unwrap(pane_manifest).panes
             hits  == {tab_position \in DOMAIN panes :
                          \E i \in 1..Len(panes[tab_position]) :
                              ToString(panes[tab_position][i].id) = pane_id}
         IN  IF hits = {} THEN None ELSE Some(Min(hits))
    ELSE None

\* faulty variant of ActivePosition: the last focus seen, not the stored active flag
ActivePositionFromFocus == focused_tab_position

\* Method 3: self.all_tabs.iter().find(|t| t.active).map(|t| t.position)
ActivePosition ==
    LET active_tab == FirstActive(all_tabs)
    IN  IF IsSome(active_tab) THEN Some(Unwrap(active_tab).position) ELSE None

\* faulty variant of target_tab_position: a pane id that is not found falls through
\* to the other methods
target_tab_position_escalating(args) ==
    LET by_pane == IF IsSome(Get(args, "pane_id"))
                   THEN FindPaneTab(Unwrap(Get(args, "pane_id")))
                   ELSE None
    IN  IF IsSome(by_pane) THEN by_pane
        ELSE IF IsSome(Get(args, "tab_position"))
        THEN ParseUsize(Unwrap(Get(args, "tab_position")))
        ELSE ActivePosition

\* faulty variant of target_tab_position: a tab_position that does not parse falls
\* through to the active tab
target_tab_position_lenient(args) ==
    IF IsSome(Get(args, "pane_id"))
    THEN FindPaneTab(Unwrap(Get(args, "pane_id")))
    ELSE IF /\ IsSome(Get(args, "tab_position"))
            /\ IsSome(ParseUsize(Unwrap(Get(args, "tab_position"))))
    THEN ParseUsize(Unwrap(Get(args, "tab_position")))
    ELSE ActivePosition

target_tab_position(args) ==
    IF IsSome(Get(args, "pane_id"))
    THEN FindPaneTab(Unwrap(Get(args, "pane_id")))
    ELSE IF IsSome(Get(args, "tab_position"))
    THEN ParseUsize(Unwrap(Get(args, "tab_position")))
    ELSE ActivePosition

\* faulty variant of UpdateTab: the rename_tab call sits inside the
\* "if self.debug" block that logs it
UpdateTabInDebug(target, emoji) ==
    IF debug /\ IsSome(target) /\ IsSome(FindTab(Unwrap(target)))
    THEN LET position     == Unwrap(target)
             tab          == Unwrap(FindTab(position))
             cleaned_name == remove_trailing_emojis(tab.name)
             new_name     == Annotate(cleaned_name, emoji)
         IN  <<RenameTab(TabIndex(position), new_name)>>
    ELSE << >>

\* "Update the identified tab": the rename_tab calls of one notify
UpdateTab(target, emoji) ==
    IF IsSome(target) /\ IsSome(FindTab(Unwrap(target)))
    THEN LET position     == Unwrap(target)
             tab          == Unwrap(FindTab(position))
             cleaned_name == remove_trailing_emojis(tab.name)
             new_name     == Annotate(cleaned_name, emoji)
         IN  <<RenameTab(TabIndex(position), new_name)>>
    ELSE << >>

\* faulty variant of PipeRenames: the command filter is missing
PipeRenamesUnfiltered(message) ==
    UpdateTab(target_tab_position(message.args), PresetEmoji(message.payload))

\* the rename_tab calls of pipe
PipeRenames(message) ==
    IF message.name # "notify"
    THEN << >>
    ELSE UpdateTab(target_tab_position(message.args), PresetEmoji(message.payload))

\* faulty variant of Pipe: the new name is written to the stored tab as well
PipeStoring(message) ==
    /\ renamed' = PipeRenames(message)
    /\ all_tabs' = IF PipeRenames(message) = << >> THEN all_tabs
                   ELSE ApplyRename(all_tabs, PipeRenames(message)[1])
    /\ event' = "pipe"
    /\ pipe_message' = Some(message)
    /\ received' = None
    /\ logged' = (debug /\ message.name = "notify")
    /\ UNCHANGED <<configuration, focused_tab_position, pane_manifest,
                   presets, debug, reported, strip>>

\* pipe
Pipe(message) ==
    /\ renamed' = PipeRenames(message)
    /\ event' = "pipe"
    /\ pipe_message' = Some(message)
    /\ received' = None
    /\ logged' = (debug /\ message.name = "notify")
    /\ UNCHANGED <<configuration, all_tabs, focused_tab_position, pane_manifest,
                   presets, debug, reported, strip>>

Next ==
    \/ \E tabs \in TabLists : TabUpdate(tabs)
    \/ \E manifest \in PaneManifests : PaneUpdate(manifest)
    \/ \E message \in PipeMessages : Pipe(message)

Spec == Init /\ [][Next]_vars

(***************************************************************************)
(* The plugin with a host that reports back the renames it is asked for:   *)
(* tab lists, notifies addressed by position or by focus, and the host's   *)
(* reports.                                                                *)
(***************************************************************************)
PositionMessages ==
    { [name |-> "notify", payload |-> p, args |-> Args(None, t)] :
        p \in Payloads,
        t \in {None} \cup {Some(ToString(q)) : q \in 0..1} }

NextReport ==
    \/ \E tabs \in TabLists : TabUpdate(tabs)
    \/ HostReport
    \/ \E message \in PositionMessages : Pipe(message)

SpecReport == Init /\ [][NextReport]_vars

(***************************************************************************)
(* The closed loop of one instance and its host: every TabUpdate is either *)
(* a stimulus (any tab list) or the host's report of the rename just       *)
(* emitted; notifies are addressed by position or by focus.                *)
(***************************************************************************)
LoopMessages ==
    { [name |-> "notify", payload |-> p, args |-> Args(None, t)] :
        p \in {None, Some("done")},
        t \in {None} \cup {Some(ToString(q)) : q \in 0..1} }

InitLoop == Load(Entries(Some("true"), Some(PresetsJson))) /\ strip = None

NextLoop ==
    \/ \E tabs \in TabLists : TabUpdate(tabs)
    \/ HostReport
    \/ \E message \in LoopMessages : Pipe(message)

SpecLoop == InitLoop /\ [][NextLoop]_vars

(***************************************************************************)
(* Two instances that differ in debug alone: the same preset table, debug  *)
(* absent in one configuration and "true" in the other, and the events and *)
(* requests of the host.                                                   *)
(***************************************************************************)
DebugConfigurations ==
    { Entries(debug_text, Some(PresetsJson)) : debug_text \in {None, Some("true")} }

DebugMessages ==
    { [name |-> n, payload |-> p, args |-> Args(i, t)] :
        n \in PipeNames, p \in {None, Some("done")},
        i \in {None} \cup {Some(x) : x \in PaneIdTexts},
        t \in {None, Some(<<"0">>), Some(<<"-", "1">>)} }

InitDebug == (\E config \in DebugConfigurations : Load(config)) /\ strip = None

NextDebug ==
    \/ \E tabs \in TabLists : TabUpdate(tabs)
    \/ \E manifest \in PaneManifests : PaneUpdate(manifest)
    \/ \E message \in DebugMessages : Pipe(message)

SpecDebug == InitDebug /\ [][NextDebug]_vars

(***************************************************************************)
(* The plugin loaded with any configuration: debug absent, "true", "false" *)
(* or a text that is no bool; presets absent, a text that is no JSON       *)
(* document of presets, or a table.  Then tab lists and notifies addressed *)
(* by position or by focus.                                                *)
(***************************************************************************)
\* a presets text on which serde_json::from_str returns Err
MalformedJson == [parses |-> FALSE, value |-> << >>]

LoadConfigurations ==
    { Entries(debug_text, presets_json) :
        debug_text \in {None, Some("true"), Some("false"), Some("yes")},
        presets_json \in {None, Some(MalformedJson), Some(PresetsJson)} }

InitLoad == (\E config \in LoadConfigurations : Load(config)) /\ strip = None

NextLoad ==
    \/ \E tabs \in TabLists : TabUpdate(tabs)
    \/ \E message \in PositionMessages : Pipe(message)

SpecLoad == InitLoad /\ [][NextLoad]_vars

(***************************************************************************)
(* remove_trailing_emojis on its own: a call with any name of at most      *)
(* MaxLen characters, followed through the passes of its loop.             *)
(***************************************************************************)
\* the characters of the names: a letter, the two blanks, and the code points
\* of the eight emojis of the array
Chars ==
    {"b", " ", "\t", "red", "check", "cross", "warn", "vs16", "zap",
     "briefcase", "party", "question"}

Labels == UNION {[1..n -> Chars] : n \in 0..MaxLen}

\* let mut cleaned = name.to_string();
StripBegin(name) ==
    Some([name |-> name, cleaned |-> name, passes |-> 0, done |-> FALSE])

InitStrip ==
    /\ Load(Entries(None, None))
    /\ \E name \in Labels : strip = StripBegin(name)

\* no call makes more passes than this
MaxPasses == MaxLen + 2

\* one pass of the loop, up to its break test
StripIterate ==
    /\ IsSome(strip)
    /\ ~Unwrap(strip).done
    /\ Unwrap(strip).passes < MaxPasses
    /\ LET run          == Unwrap(strip)
           original_len == Len(run.cleaned)
           pass         == StripPass(run.cleaned)
       IN  strip' = Some([run EXCEPT
                            !.cleaned = pass.cleaned,
                            !.passes  = @ + 1,
                            !.done    = ~pass.found_emoji
                                          /\ Len(pass.cleaned) = original_len])
    /\ UNCHANGED <<configuration, all_tabs, focused_tab_position, pane_manifest,
                   presets, debug, event, pipe_message, renamed, reported,
                   received, logged>>

NextStrip == StripIterate

\* the loop runs on: nothing else is scheduled during the call
SpecStrip == InitStrip /\ [][NextStrip]_vars /\ WF_vars(StripIterate)

(***************************************************************************)
(* Vocabulary of the properties below.                                     *)
(***************************************************************************)
Message == Unwrap(pipe_message)

\* the last entry point was pipe, with the command name "notify"
Notified == event = "pipe" /\ Message.name = "notify"

HasArg(key) == key \in DOMAIN Message.args

\* the glyph of the last request
Glyph == PresetEmoji(Message.payload)

\* the tabs of the stored list at position p
TabsAt(p) == {i \in 1..Len(all_tabs) : all_tabs[i].position = p}

\* the tabs of a list that are marked active
ActiveTabs(tabs) == {i \in 1..Len(tabs) : tabs[i].active}

\* the rename instruction (p + 1, strip(name) + " " + glyph) if the stored
\* list has a tab at position p, and no instruction if it has none
Annotation(p, glyph) ==
    IF TabsAt(p) = {} THEN << >>
    ELSE LET tab == all_tabs[CHOOSE i \in TabsAt(p) : TRUE]
         IN  << [tab_index |-> p + 1,
                 name |-> remove_trailing_emojis(tab.name) \o <<" ">> \o glyph] >>

\* the tab positions under which the stored manifest lists a pane with this id
Owners(pane_id) ==
    IF pane_manifest = None THEN {}
    ELSE LET panes == Unwrap(pane_manifest).panes
         IN  {p \in DOMAIN panes :
                 \E i \in 1..Len(panes[p]) : ToString(panes[p][i].id) = pane_id}

\* a text that is a non-negative integer in decimal digits, and its value
IsNumber(text) == Len(text) > 0 /\ \A i \in 1..Len(text) : IsDigit(text[i])
NumberOf(text) == DigitsValue(text)

(***************************************************************************)
(* C1: a notify whose pane_id names a pane of the stored manifest targets  *)
(* the tab position under which the first matching pane is listed,         *)
(* whatever tab_position says and whichever tab is active; if the stored   *)
(* tab list has a tab at that position, exactly one rename                 *)
(* (position + 1, strip(name) + " " + glyph) is emitted.                   *)
(***************************************************************************)
C1_PaneAnchored ==
    (Notified /\ HasArg("pane_id") /\ Owners(Message.args["pane_id"]) # {})
        => renamed = Annotation(Min(Owners(Message.args["pane_id"])), Glyph)

\* the pane is listed under two tabs, the request names another position in
\* tab_position, another tab is active, and the first owner is renamed
C1_Witness ==
    /\ Notified
    /\ HasArg("pane_id")
    /\ Cardinality(Owners(Message.args["pane_id"])) = 2
    /\ HasArg("tab_position")
    /\ ParseUsize(Message.args["tab_position"]) = Some(1)
    /\ ActivePosition = Some(1)
    /\ Len(renamed) = 1
    /\ renamed[1].tab_index = 1

(***************************************************************************)
(* C2: a notify whose pane_id matches no pane of the stored manifest (or   *)
(* arrives before any manifest) emits no rename, even with a valid         *)
(* tab_position and an active tab in the stored list.                      *)
(***************************************************************************)
C2_NoEscalation ==
    (Notified /\ HasArg("pane_id") /\ Owners(Message.args["pane_id"]) = {})
        => renamed = << >>

\* the manifest is there and lacks the pane, tab_position names a stored tab,
\* a tab is active, and nothing was emitted
C2_Witness ==
    /\ Notified
    /\ HasArg("pane_id")
    /\ IsSome(pane_manifest)
    /\ Owners(Message.args["pane_id"]) = {}
    /\ HasArg("tab_position")
    /\ IsNumber(Message.args["tab_position"])
    /\ TabsAt(NumberOf(Message.args["tab_position"])) # {}
    /\ IsSome(ActivePosition)
    /\ renamed = << >>

(***************************************************************************)
(* C3: a TabUpdate whose active tab sits at the stored focused position    *)
(* emits no rename, whatever the tab's label; so of consecutive TabUpdates *)
(* with the same active position only the first can emit a cleanup.        *)
(***************************************************************************)
C3_SteadyFocus ==
    [][ (event' = "TabUpdate" /\ ActiveTabs(all_tabs') # {})
          => LET active == all_tabs'[CHOOSE i \in ActiveTabs(all_tabs') : TRUE]
             IN  /\ focused_tab_position = Some(active.position)
                        => renamed' = << >>
                 /\ ( /\ event = "TabUpdate"
                      /\ \E i \in ActiveTabs(all_tabs) :
                            all_tabs[i].position = active.position )
                        => renamed' = << >> ]_vars

\* a TabUpdate left a label with a trailing glyph on the active tab alone:
\* the tab was already the focused one
C3_Witness ==
    /\ event = "TabUpdate"
    /\ renamed = << >>
    /\ \E i \in ActiveTabs(all_tabs) :
          /\ remove_trailing_emojis(all_tabs[i].name) # all_tabs[i].name
          /\ focused_tab_position = Some(all_tabs[i].position)

(***************************************************************************)
(* C5: a TabUpdate whose active tab T is not at the stored focused         *)
(* position (none stored included) sets the focused position to            *)
(* T.position and emits exactly (T.position + 1, strip(T.name)) if         *)
(* strip(T.name) differs from T.name, and nothing if it does not.          *)
(***************************************************************************)
C5_FocusTransition ==
    [][ (event' = "TabUpdate" /\ ActiveTabs(all_tabs') # {})
          => LET T == all_tabs'[CHOOSE i \in ActiveTabs(all_tabs') : TRUE]
                 stripped == remove_trailing_emojis(T.name)
             IN  focused_tab_position # Some(T.position)
                    => /\ focused_tab_position' = Some(T.position)
                       /\ renamed' = IF stripped # T.name
                                     THEN << [tab_index |-> T.position + 1,
                                              name |-> stripped] >>
                                     ELSE << >> ]_vars

\* the second tab took the focus and its label was cleaned
C5_Witness ==
    /\ event = "TabUpdate"
    /\ focused_tab_position = Some(1)
    /\ Len(renamed) = 1
    /\ renamed[1].tab_index = 2
    /\ renamed[1].name = <<"b">>

(***************************************************************************)
(* C6: a notify without pane_id whose tab_position is a non-negative       *)
(* integer p targets p, whichever tab is active: the rename                *)
(* (p + 1, strip(name) + " " + glyph) is emitted if and only if the stored *)
(* list has a tab at position p; otherwise nothing is emitted.             *)
(***************************************************************************)
C6_PositionAnchored ==
    (Notified /\ ~HasArg("pane_id") /\ HasArg("tab_position")
              /\ IsNumber(Message.args["tab_position"]))
        => /\ renamed = Annotation(NumberOf(Message.args["tab_position"]), Glyph)
           /\ (renamed # << >>) <=> (TabsAt(NumberOf(Message.args["tab_position"])) # {})

\* position 1 is not in the stored list, another tab is active, and nothing
\* was emitted
C6_Witness ==
    /\ Notified
    /\ ~HasArg("pane_id")
    /\ HasArg("tab_position")
    /\ Message.args["tab_position"] = <<"1">>
    /\ TabsAt(1) = {}
    /\ ActivePosition = Some(0)
    /\ renamed = << >>

(***************************************************************************)
(* C7: a notify with neither pane_id nor tab_position targets the tab      *)
(* marked active in the stored list: (its position + 1, strip(its name) +  *)
(* " " + glyph) is emitted if there is one, and nothing if there is none.  *)
(***************************************************************************)
C7_FocusFallback ==
    (Notified /\ ~HasArg("pane_id") /\ ~HasArg("tab_position"))
        => IF ActiveTabs(all_tabs) = {} THEN renamed = << >>
           ELSE LET tab == all_tabs[CHOOSE i \in ActiveTabs(all_tabs) : TRUE]
                IN  renamed = << [tab_index |-> tab.position + 1,
                                  name |-> remove_trailing_emojis(tab.name)
                                              \o <<" ">> \o Glyph] >>

\* no tab of the stored list is active although a focus is remembered and
\* its tab is stored, and nothing was emitted
C7_Witness ==
    /\ Notified
    /\ ~HasArg("pane_id")
    /\ ~HasArg("tab_position")
    /\ ActiveTabs(all_tabs) = {}
    /\ IsSome(focused_tab_position)
    /\ TabsAt(Unwrap(focused_tab_position)) # {}
    /\ renamed = << >>

(***************************************************************************)
(* C8: a notify without pane_id whose tab_position is not a non-negative   *)
(* integer goes on to the focus fallback and targets the active tab of the *)
(* stored list, if any.                                                    *)
(***************************************************************************)
C8_UnparsedFallsBack ==
    (Notified /\ ~HasArg("pane_id") /\ HasArg("tab_position")
              /\ ParseUsize(Message.args["tab_position"]) = None)
        => IF ActiveTabs(all_tabs) = {} THEN renamed = << >>
           ELSE renamed =
                   Annotation(all_tabs[CHOOSE i \in ActiveTabs(all_tabs) : TRUE].position,
                              Glyph)

\* C8, as the code has it: a notify without pane_id whose tab_position is
\* present is settled by the position method alone; when the text is not a
\* non-negative integer no rename is emitted, active tab or not.
C8_UnparsedDropped ==
    (Notified /\ ~HasArg("pane_id") /\ HasArg("tab_position")
              /\ ~IsNumber(Message.args["tab_position"]))
        => renamed = << >>

\* "-1" with an active tab in the stored list: nothing was emitted
C8_Witness ==
    /\ Notified
    /\ ~HasArg("pane_id")
    /\ HasArg("tab_position")
    /\ Message.args["tab_position"] = <<"-", "1">>
    /\ ActiveTabs(all_tabs) # {}
    /\ renamed = << >>

(***************************************************************************)
(* C9: the glyph of a notify depends on the payload and the preset table   *)
(* alone: no payload or an empty one gives the default "check"; a          *)
(* non-empty payload that is a key of the table gives the glyph stored for *)
(* it; any other payload gives the fallback "question", which is not the   *)
(* default, and the request is routed as with any other payload.           *)
(***************************************************************************)
C9_Glyph ==
    Notified =>
        LET payload == Message.payload
            glyph   == IF payload = None \/ payload = Some("") THEN <<"check">>
                       ELSE IF Unwrap(payload) \in DOMAIN presets
                            THEN presets[Unwrap(payload)].emoji
                       ELSE <<"question">>
        IN  /\ <<"question">> # <<"check">>
            /\ \A other \in Payloads :
                  LET routed == PipeRenames([Message EXCEPT !.payload = other])
                  IN  /\ Len(routed) = Len(renamed)
                      /\ renamed # << >> => routed[1].tab_index = renamed[1].tab_index
            /\ renamed # << >>
                  => renamed[1].name =
                        remove_trailing_emojis(
                            all_tabs[CHOOSE i \in TabsAt(renamed[1].tab_index - 1) : TRUE].name)
                        \o <<" ">> \o glyph

\* an unknown key with a table that has other keys: the fallback is appended
C9_Witness ==
    /\ Notified
    /\ Message.payload = Some("zzz")
    /\ DOMAIN presets # {}
    /\ Len(renamed) = 1
    /\ renamed[1].name = <<"b", " ", "question">>

(***************************************************************************)
(* C10: a pipe whose name is not exactly "notify" emits no rename and      *)
(* leaves the tab list, the pane manifest, the focused position and the    *)
(* preset table as they were, whatever its payload and args.               *)
(***************************************************************************)
C10_OtherCommandsIgnored ==
    [][ (event' = "pipe" /\ Unwrap(pipe_message').name # "notify")
          => /\ renamed' = << >>
             /\ UNCHANGED <<all_tabs, pane_manifest, focused_tab_position, presets>> ]_vars

\* "Notify" with a pane_id that the manifest resolves to a stored tab
C10_Witness ==
    /\ event = "pipe"
    /\ Message.name = "Notify"
    /\ HasArg("pane_id")
    /\ Owners(Message.args["pane_id"]) # {}
    /\ TabsAt(Min(Owners(Message.args["pane_id"]))) # {}
    /\ renamed = << >>

(***************************************************************************)
(* C4: re-annotation replaces rather than stacks.  A tab had label L; a    *)
(* notify with glyph G1 (the default, the fallback or a glyph of the       *)
(* preset table) was resolved to it, the host applied the rename and       *)
(* reported the new label in a TabUpdate; a second notify with glyph G2 is *)
(* resolved to the same tab.  Its label is strip(L) + " " + G2, and G1 is  *)
(* not in it (other than as part of strip(L) or as G2 itself).             *)
(***************************************************************************)
Contains(label, glyph) ==
    \E i \in 1..Len(label) :
        /\ i + Len(glyph) - 1 <= Len(label)
        /\ SubSeq(label, i, i + Len(glyph) - 1) = glyph

C4_Replaces ==
    (/\ Notified
     /\ IsSome(reported)
     /\ Len(renamed) = 1
     /\ renamed[1].tab_index = Unwrap(reported).position + 1)
        => LET L  == Unwrap(reported).label
               G1 == Unwrap(reported).emoji
               G2 == Glyph
           IN  /\ renamed[1].name = remove_trailing_emojis(L) \o <<" ">> \o G2
               /\ (G1 # G2 /\ ~Contains(remove_trailing_emojis(L), G1))
                     => ~Contains(renamed[1].name, G1)

\* the same, for a first glyph that is one of the array of
\* remove_trailing_emojis
C4_ReplacesListed ==
    (/\ Notified
     /\ IsSome(reported)
     /\ Len(renamed) = 1
     /\ renamed[1].tab_index = Unwrap(reported).position + 1
     /\ \E i \in 1..Len(emojis) : emojis[i] = Unwrap(reported).emoji)
        => renamed[1].name =
              remove_trailing_emojis(Unwrap(reported).label) \o <<" ">> \o Glyph

\* the call of remove_trailing_emojis that is followed, and the text tests
Run == Unwrap(strip)
EndsWithWhitespace(s) == Len(s) > 0 /\ s[Len(s)] \in Whitespace
EndsWithEmoji(s) == \E i \in 1..Len(emojis) : EndsWith(s, emojis[i])
IsPrefix(s, t) == Len(s) <= Len(t) /\ s = SubSeq(t, 1, Len(s))

(***************************************************************************)
(* C11: strip is idempotent: for every name of letters, blanks and the     *)
(* eight emojis, strip(strip(name)) = strip(name), and strip(name) ends    *)
(* neither with a blank nor with an emoji of the array.                    *)
(***************************************************************************)
C11_StripIdempotent ==
    (IsSome(strip) /\ Run.done)
        => /\ Run.cleaned = remove_trailing_emojis(Run.name)
           /\ remove_trailing_emojis(Run.cleaned) = Run.cleaned
           /\ ~EndsWithWhitespace(Run.cleaned)
           /\ ~EndsWithEmoji(Run.cleaned)

\* a name with an emoji and a blank behind its letter came out as the letter
C11_Witness ==
    /\ IsSome(strip)
    /\ Run.done
    /\ Run.name = <<"b", "zap", " ">>
    /\ Run.cleaned = <<"b">>

(***************************************************************************)
(* C13: strip ends on every name: a pass that does not leave the loop      *)
(* makes the text strictly shorter, so a name of n characters takes at     *)
(* most n + 1 passes and the loop is left; the text is always a prefix of  *)
(* the name; a name that ends neither with a blank nor with an emoji of    *)
(* the array comes out unchanged.                                          *)
(***************************************************************************)
C13_StripTerminates ==
    /\ [](IsSome(strip)
            => /\ Run.passes <= Len(Run.name) + 1
               /\ IsPrefix(Run.cleaned, Run.name)
               /\ (Run.done /\ ~EndsWithWhitespace(Run.name) /\ ~EndsWithEmoji(Run.name))
                     => Run.cleaned = Run.name)
    /\ [][ (IsSome(strip) /\ ~Unwrap(strip').done)
             => Len(Unwrap(strip').cleaned) < Len(Run.cleaned) ]_vars
    /\ <>(IsSome(strip) /\ Run.done)

\* a name of MaxLen characters took MaxLen shortening passes and the last one
C13_Witness ==
    /\ IsSome(strip)
    /\ Run.done
    /\ Len(Run.name) = MaxLen
    /\ Run.passes = MaxLen + 1
    /\ Run.cleaned = << >>

\* the glyphs a notify can append with this preset table: the default, the
\* fallback, and the emoji of every preset
AppendableGlyphs ==
    {<<"check">>, <<"question">>} \cup {presets[key].emoji : key \in DOMAIN presets}

\* the stored tab a rename instruction is about
RenamedTab(rename) == all_tabs[CHOOSE i \in TabsAt(rename.tab_index - 1) : TRUE]

(***************************************************************************)
(* C12: strip undoes annotate: when a notify appends its glyph G (the      *)
(* default, the fallback or the emoji of a preset) to a base label B that  *)
(* ends with no glyph, the emitted label B + " " + G strips back to B.     *)
(***************************************************************************)
C12_RoundTrip ==
    (Notified /\ renamed # << >>)
        => LET B == remove_trailing_emojis(RenamedTab(renamed[1]).name)
           IN  (\A G \in AppendableGlyphs : ~EndsWith(B, G))
                  => /\ renamed[1].name = B \o <<" ">> \o Glyph
                     /\ Glyph \in AppendableGlyphs
                     /\ remove_trailing_emojis(renamed[1].name) = B

\* what a request must emit, written from the stored tab list, the stored
\* manifest, the preset table and the request alone
ExpectedRenames(message) ==
    LET args  == message.args
        glyph == IF message.payload = None \/ message.payload = Some("")
                 THEN <<"check">>
                 ELSE IF Unwrap(message.payload) \in DOMAIN presets
                 THEN presets[Unwrap(message.payload)].emoji
                 ELSE <<"question">>
        active == {all_tabs[i].position : i \in ActiveTabs(all_tabs)}
        target == IF "pane_id" \in DOMAIN args
                  THEN (IF Owners(args["pane_id"]) = {} THEN {}
                        ELSE {Min(Owners(args["pane_id"]))})
                  ELSE IF "tab_position" \in DOMAIN args
                  THEN (IF IsNumber(args["tab_position"])
                        THEN {NumberOf(args["tab_position"])} ELSE {})
                  ELSE active
    IN  IF message.name # "notify" \/ target = {} THEN << >>
        ELSE Annotation(CHOOSE p \in target : TRUE, glyph)

\* what a tab list must emit, written from the stored focus and the list alone
ExpectedCleanup(tabs) ==
    IF ActiveTabs(tabs) = {} THEN << >>
    ELSE LET T == tabs[CHOOSE i \in ActiveTabs(tabs) : TRUE]
         IN  IF focused_tab_position # Some(T.position)
                  /\ remove_trailing_emojis(T.name) # T.name
             THEN << [tab_index |-> T.position + 1,
                      name |-> remove_trailing_emojis(T.name)] >>
             ELSE << >>

ExpectedFocus(tabs) ==
    IF ActiveTabs(tabs) = {} THEN focused_tab_position
    ELSE Some(tabs[CHOOSE i \in ActiveTabs(tabs) : TRUE].position)

(***************************************************************************)
(* C14: debug decides nothing but the log: after every event the tab list, *)
(* the manifest, the focused position, the preset table and the renames    *)
(* emitted are what the event and the state before it give without any     *)
(* look at debug, so that two instances that differ in debug alone stay    *)
(* equal in all of them over any sequence of events; only an instance with *)
(* debug set writes a log.                                                 *)
(***************************************************************************)
C14_DebugBlind ==
    [][ /\ presets' = presets
        /\ debug' = debug
        /\ logged' => debug
        /\ event' = "TabUpdate"
              => /\ all_tabs' = Unwrap(received')
                 /\ pane_manifest' = pane_manifest
                 /\ focused_tab_position' = ExpectedFocus(Unwrap(received'))
                 /\ renamed' = ExpectedCleanup(Unwrap(received'))
        /\ event' = "PaneUpdate"
              => /\ pane_manifest' = received'
                 /\ UNCHANGED <<all_tabs, focused_tab_position>>
                 /\ renamed' = << >>
        /\ event' = "pipe"
              => /\ UNCHANGED <<all_tabs, pane_manifest, focused_tab_position>>
                 /\ renamed' = ExpectedRenames(Unwrap(pipe_message')) ]_vars

\* the instance without debug, with the same preset table as the one with
\* debug, emitted the rename of a preset and logged nothing
C14_Witness ==
    /\ ~debug
    /\ ~logged
    /\ "done" \in DOMAIN presets
    /\ Notified
    /\ Message.payload = Some("done")
    /\ renamed # << >>

(***************************************************************************)
(* C15: no rename is ever emitted whose new label equals the label stored  *)
(* for its tab, be it a cleanup on a focus transition or the rename of a   *)
(* notify.                                                                 *)
(***************************************************************************)
C15_NoRedundantRename ==
    \A k \in 1..Len(renamed) : renamed[k].name # RenamedTab(renamed[k]).name

\* C15, as the code has it: a cleanup is never emitted with the label the
\* tab already has; a notify emits its rename without comparing, so a tab
\* whose stored label is already strip(label) + " " + glyph is renamed to
\* the label it has.
C15_CleanupNeverRedundant ==
    /\ event = "TabUpdate"
          => \A k \in 1..Len(renamed) : renamed[k].name # RenamedTab(renamed[k]).name
    /\ (Notified /\ renamed # << >>)
          => LET stored == RenamedTab(renamed[1]).name
             IN  stored = remove_trailing_emojis(stored) \o <<" ">> \o Glyph
                    => renamed[1].name = stored

\* a focus transition onto a tab with a trailing emoji emitted the cleanup
C15_Witness ==
    /\ event = "TabUpdate"
    /\ Len(renamed) = 1
    /\ RenamedTab(renamed[1]).name = <<"b", " ", "check">>
    /\ renamed[1].name = <<"b">>

(***************************************************************************)
(* C16: load takes any configuration: with presets absent or not parsing   *)
(* the preset table is empty, with debug absent or not parsing debug is    *)
(* false; with the empty table every notify with a non-empty payload       *)
(* appends the fallback "question" and every notify with no payload or an  *)
(* empty one appends the default "check".                                  *)
(***************************************************************************)
C16_LoadNeverFails ==
    LET text     == Get(configuration, "debug")
        json     == Get(configuration, "presets")
        no_table == json = None \/ ~Unwrap(json).parses
    IN  /\ no_table => DOMAIN presets = {}
        /\ (text = None \/ Unwrap(text) \notin {"true", "false"}) => ~debug
        /\ (no_table /\ Notified /\ renamed # << >>)
              => renamed[1].name =
                    remove_trailing_emojis(RenamedTab(renamed[1]).name) \o <<" ">>
                    \o (IF Message.payload = None \/ Message.payload = Some("")
                        THEN <<"check">> ELSE <<"question">>)

\* presets that do not parse and a debug text that is no bool: a notify with
\* the payload "done" appended the fallback
C16_Witness ==
    /\ Get(configuration, "presets") = Some(MalformedJson)
    /\ Get(configuration, "debug") = Some("yes")
    /\ ~debug
    /\ Notified
    /\ Message.payload = Some("done")
    /\ Len(renamed) = 1
    /\ renamed[1].name = <<"b", " ", "question">>

(***************************************************************************)
(* C17: no feedback between renames and tab events: with a host that       *)
(* applies every rename and reports it in a TabUpdate with the new label   *)
(* and the active tab as it was, an entry point emits at most one rename   *)
(* and the TabUpdate that reports a rename emits none, so that one         *)
(* stimulus is followed by at most one rename and then none is pending.    *)
(***************************************************************************)
C17_NoFeedback ==
    [][ /\ Len(renamed') <= 1
        /\ ( /\ Len(renamed) = 1
             /\ event' = "TabUpdate"
             /\ all_tabs' = ApplyRename(all_tabs, renamed[1]) )
              => renamed' = << >> ]_vars

\* the host reported the rename of a notify on the active tab: the tab now
\* carries a trailing emoji, and no cleanup was emitted for it
C17_Witness ==
    /\ event = "TabUpdate"
    /\ IsSome(reported)
    /\ renamed = << >>
    /\ \E i \in ActiveTabs(all_tabs) :
          /\ all_tabs[i].position = Unwrap(reported).position
          /\ all_tabs[i].name # Unwrap(reported).label
          /\ remove_trailing_emojis(all_tabs[i].name) # all_tabs[i].name

(***************************************************************************)
(* C18: pipe only reads the snapshot: every pipe, renaming or not, leaves  *)
(* the stored tab list (the target's stored name included), the manifest,  *)
(* the focused position and the preset table as they were; so of two       *)
(* notifies in a row that rename the same tab, both labels are made from   *)
(* the same stored name.                                                   *)
(***************************************************************************)
C18_PipeReadsOnly ==
    [][ event' = "pipe"
          => /\ UNCHANGED <<all_tabs, pane_manifest, focused_tab_position, presets>>
             /\ ( /\ event = "pipe"
                  /\ renamed # << >>
                  /\ renamed' # << >>
                  /\ renamed'[1].tab_index = renamed[1].tab_index )
                   => LET stored == RenamedTab(renamed[1]).name
                      IN  /\ renamed[1].name =
                                remove_trailing_emojis(stored) \o <<" ">> \o Glyph
                          /\ renamed'[1].name =
                                remove_trailing_emojis(stored) \o <<" ">>
                                \o PresetEmoji(Unwrap(pipe_message').payload) ]_vars

\* a notify renamed a tab that the stored list still has under its old name
C18_Witness ==
    /\ Notified
    /\ Len(renamed) = 1
    /\ RenamedTab(renamed[1]).name = <<"b", " ", "check">>
    /\ renamed[1].name = <<"b", " ", "question">>

(***************************************************************************)
(* C19: a PaneUpdate stores the manifest of the event in place of the one  *)
(* before (a pane id that the new manifest does not list resolves to no    *)
(* tab afterwards), emits no rename and leaves the tab list and the        *)
(* focused position as they were.                                          *)
(***************************************************************************)
C19_PaneUpdateReplaces ==
    [][ event' = "PaneUpdate"
          => /\ pane_manifest' = received'
             /\ \A pane_id \in PaneIdTexts :
                   (\A p \in DOMAIN Unwrap(received').panes :
                       \A i \in 1..Len(Unwrap(received').panes[p]) :
                           ToString(Unwrap(received').panes[p][i].id) # pane_id)
                      => FindPaneTab(pane_id)' = None
             /\ renamed' = << >>
             /\ UNCHANGED <<all_tabs, focused_tab_position>> ]_vars

\* with tabs stored and a focus remembered, the manifest now stored lists
\* pane 7 nowhere
C19_Witness ==
    /\ event = "PaneUpdate"
    /\ IsSome(pane_manifest)
    /\ Owners(<<"7">>) = {}
    /\ all_tabs # << >>
    /\ IsSome(focused_tab_position)

(***************************************************************************)
(* C20: a TabUpdate stores exactly the tab list of the event and leaves    *)
(* the manifest as it was; when the list has no active tab (the empty list *)
(* included) no rename is emitted and the focused position stays, so the   *)
(* next TabUpdate whose active tab is at that position is no focus         *)
(* transition: it emits nothing and the focused position stays.            *)
(***************************************************************************)
C20_TabUpdateReplaces ==
    [][ event' = "TabUpdate"
          => /\ all_tabs' = Unwrap(received')
             /\ pane_manifest' = pane_manifest
             /\ ActiveTabs(all_tabs') = {}
                   => /\ renamed' = << >>
                      /\ focused_tab_position' = focused_tab_position
             /\ ( /\ event = "TabUpdate"
                  /\ ActiveTabs(all_tabs) = {}
                  /\ \E i \in ActiveTabs(all_tabs') :
                        focused_tab_position = Some(all_tabs'[i].position) )
                   => /\ renamed' = << >>
                      /\ focused_tab_position' = focused_tab_position ]_vars

\* the empty tab list arrived after a focus was remembered: the list is
\* stored, the focus is kept, nothing was emitted
C20_Witness ==
    /\ event = "TabUpdate"
    /\ all_tabs = << >>
    /\ focused_tab_position = Some(1)
    /\ renamed = << >>

(***************************************************************************)
(* C21: in every state reached by TabUpdates, PaneUpdates and pipes, if    *)
(* the stored tab list has an active tab then the focused position is that *)
(* tab's position; the focused position is empty only as long as no        *)
(* TabUpdate with an active tab was processed: such a TabUpdate sets it,   *)
(* and once set it is never empty again.                                   *)
(***************************************************************************)
C21_FocusFollowsActive ==
    /\ [](\A i \in ActiveTabs(all_tabs) :
              focused_tab_position = Some(all_tabs[i].position))
    /\ [][ /\ (event' = "TabUpdate" /\ ActiveTabs(all_tabs') # {})
                 => IsSome(focused_tab_position')
           /\ IsSome(focused_tab_position) => IsSome(focused_tab_position') ]_vars

\* after a TabUpdate with the second tab active and a PaneUpdate behind it,
\* the focused position is that of the stored active tab
C21_Witness ==
    /\ event = "PaneUpdate"
    /\ \E i \in ActiveTabs(all_tabs) : all_tabs[i].position = 1
    /\ focused_tab_position = Some(1)

(***************************************************************************)
(* C22: every rename emitted, by a cleanup or by a notify of any method,   *)
(* carries the index position + 1 (so at least 1) of a tab that the stored *)
(* tab list holds when it is emitted; nothing is emitted for a position    *)
(* the stored list lacks, a position taken from the manifest included.     *)
(***************************************************************************)
C22_RenamesStoredTabs ==
    /\ \A k \in 1..Len(renamed) :
          /\ renamed[k].tab_index >= 1
          /\ TabsAt(renamed[k].tab_index - 1) # {}
    /\ (Notified /\ HasArg("pane_id") /\ Owners(Message.args["pane_id"]) # {}
                 /\ TabsAt(Min(Owners(Message.args["pane_id"]))) = {})
          => renamed = << >>

\* the manifest lists the pane under position 1 alone, the stored list has
\* one tab, active, at position 0, and nothing was emitted
C22_Witness ==
    /\ Notified
    /\ HasArg("pane_id")
    /\ Owners(Message.args["pane_id"]) = {1}
    /\ Len(all_tabs) = 1
    /\ ActiveTabs(all_tabs) # {}
    /\ renamed = << >>
====
